---- MODULE Spec2Model ----
(***************************************************************************)
(* Model of src/config/mod.rs of kube-rs: the two ways of producing a      *)
(* Configuration (kubeconfig file, in-cluster environment) and the client  *)
(* builder they share.  Every function of mod.rs is a sequence of steps,   *)
(* one action per statement group; `?` is an early return with an error.   *)
(* The sibling modules (utils, exec, kube_config, incluster_config) are    *)
(* modelled by their contract.                                             *)
(***************************************************************************)
EXTENDS Naturals, Sequences, FiniteSets, TLC

VARIABLES
    pc,              \* position in the running function
    entry,           \* the public function that was called
    loader,          \* KubeConfigLoader returned by load: selected cluster, user, context
    fs,              \* content of the user's token file on disk (None: unreadable)
    creds,           \* what exec::auth_exec returned during this call
    execCalls,       \* number of exec::auth_exec invocations of this call
    token,           \* local `token` of create_client_builder
    client_builder,  \* local `client_builder`
    icenv,           \* in-cluster environment: env vars and mounted files
    result           \* what the called function returned

vars == <<pc, entry, loader, fs, creds, execCalls, token, client_builder, icenv, result>>

----------------------------------------------------------------------------
(* Bounds *)

NumTokens == 2
MaxCaCerts == 2

----------------------------------------------------------------------------
(* Values.  Option<T> is a sequence: None is <<>>, Some(x) is <<x>>.        *)

None == <<>>
Some(x) == <<x>>
IsSome(o) == o # <<>>
Unwrap(o) == o[1]

TokenNames == <<"tok1", "tok2", "tok3", "tok4">>
\* a string with a character no header value may hold (a newline)
InvalidHeaderString == "bad\ntoken"
Tokens == {TokenNames[i] : i \in 1..NumTokens} \cup {InvalidHeaderString}
OptTokens == {None} \cup {Some(t) : t \in Tokens}

Servers == {"https://10.0.0.1", "https://10.0.0.2"}
MaterialStates == {"absent", "valid", "malformed"}
CaStates == {[st |-> "absent", n |-> 0], [st |-> "malformed", n |-> 0]}
            \cup {[st |-> "valid", n |-> k] : k \in 1..MaxCaCerts}

Clusters == [server : Servers,
             certificate_authority : CaStates,
             insecure_skip_tls_verify : {None, Some(TRUE), Some(FALSE)}]

AuthInfos == [token : OptTokens,
              token_file : {None, Some("/path/token")},
              username : {None, Some("user")},
              password : {None, Some("pass")},
              client_certificate : MaterialStates,
              client_key : MaterialStates,
              exec : {None, Some("plugin")}]

Contexts == [namespace : {None, Some("ns1")}]

Loaders == [cluster : Clusters, user : AuthInfos, context : Contexts]

ExecStatuses == [token : OptTokens,
                 client_certificate_data : {None, Some("exec-cert")},
                 client_key_data : {None, Some("exec-key")}]
\* Result<ExecCredential>: the plugin failed, or answered with or without a status
ExecResults == {[ok |-> FALSE, status |-> None]}
               \cup {[ok |-> TRUE, status |-> s] : s \in {None} \cup {Some(x) : x \in
                        {e \in ExecStatuses :
                            IsSome(e.client_certificate_data) = IsSome(e.client_key_data)}}}

InClusterEnvs == [host : {None, Some("10.96.0.1")},
                  port : {None, Some("443")},
                  ca : {"missing", "malformed", "unconvertible", "valid"},
                  token : OptTokens,
                  ns : {None, Some("ns1"), Some("ns2")},
                  build_ok : BOOLEAN]

----------------------------------------------------------------------------
(* Errors *)

\* an error is a kind and a message (a sequence of the pieces format! joins)
KubeConfigErr(msg) == [kind |-> "KubeConfig", msg |-> msg]
SslError == [kind |-> "SslError", msg |-> <<>>]
\* errors of the sibling modules that `?` passes on unchanged
LoaderError == [kind |-> "LoaderError", msg |-> <<>>]
ExecError == [kind |-> "ExecError", msg |-> <<>>]
TlsMaterialError == [kind |-> "TlsMaterialError", msg |-> <<>>]
\* env var names held by incluster_config::SERVICE_HOSTENV / SERVICE_PORTENV
SERVICE_HOSTENV == "KUBERNETES_SERVICE_HOST"
SERVICE_PORTENV == "KUBERNETES_SERVICE_PORT"
InClusterServerMsg == <<"Unable to load incluster config, ", SERVICE_HOSTENV, " and ",
                        SERVICE_PORTENV, " must be defined">>

Pending == [status |-> "pending", error |-> None, builder |-> None, configuration |-> None]
Err(e) == [status |-> "Err", error |-> Some(e), builder |-> None, configuration |-> None]
OkBuilder(b) == [status |-> "Ok", error |-> None, builder |-> Some(b), configuration |-> None]
OkConfiguration(c) ==
    [status |-> "Ok", error |-> None, builder |-> None, configuration |-> Some(c)]

----------------------------------------------------------------------------
(* reqwest: ClientBuilder and headers *)

\* Client::builder()
NewBuilder == [roots |-> 0, identity |-> None, accept_invalid_certs |-> FALSE,
               default_headers |-> {}]
AUTHORIZATION == "authorization"
\* HeaderMap::insert: one value per name, the new one replaces the old
HeaderInsert(h, name, value) == {e \in h : e[1] # name} \cup {<<name, value>>}
\* format!("Bearer {}", token)
BearerValue(t) == <<"Bearer ", t>>
\* base64::encode(&format!("{}:{}", u, p)) inside format!("Basic {}", encoded)
BasicValue(u, p) == <<"Basic ", "base64", u, ":", p>>
\* HeaderValue::from_str: fails on bytes that are not visible ASCII
HeaderValueValid(v) == \A i \in 1..Len(v) : v[i] # InvalidHeaderString

\* the loader and the environment of the running call
L == Unwrap(loader)
E == Unwrap(icenv)

----------------------------------------------------------------------------
(* Configuration *)

\* Configuration::with_default_ns
with_default_ns(base_path, client, default_ns) ==
    [base_path |-> base_path, client |-> client, default_ns |-> default_ns]

\* variant: the selected context's namespace becomes the default namespace
Configuration_new_ContextNs(base_path, client) ==
    with_default_ns(base_path, client,
                    IF IsSome(L.context.namespace) THEN Unwrap(L.context.namespace)
                    ELSE "default")

\* Configuration::new
Configuration_new(base_path, client) == with_default_ns(base_path, client, "default")

----------------------------------------------------------------------------
(* Sibling modules, by contract *)

\* utils::data_or_file: the inline value wins over the file; Err (None here) when
\* neither is given or the file cannot be read.  `content` is the file on disk.
data_or_file(data, file, content) ==
    IF IsSome(data) THEN data
    ELSE IF IsSome(file) THEN content
    ELSE None

\* KubeConfigLoader::ca_bundle: None when no CA is configured, else the decoded
\* certificates or an error
ca_bundle(l) ==
    LET ca == l.cluster.certificate_authority IN
    [present |-> ca.st # "absent", ok |-> ca.st = "valid", n |-> ca.n]

\* KubeConfigLoader::p12: Ok only when certificate and key both resolve and parse
p12(l) == l.user.client_certificate = "valid" /\ l.user.client_key = "valid"

\* incluster_config::kube_server: Some(url) only when both env vars are set
kube_server(e) ==
    IF IsSome(e.host) /\ IsSome(e.port)
    THEN Some(<<"https://", Unwrap(e.host), ":", Unwrap(e.port)>>)
    ELSE None

\* incluster_config::load_cert: the mounted CA file, read and parsed
load_cert(e) == e.ca \in {"unconvertible", "valid"}
\* Certificate::from_der(&ca.to_der()?) of the loaded certificate
cert_from_der(e) == e.ca = "valid"
\* incluster_config::load_token, load_default_ns: the mounted files, read
load_token(e) == e.token
load_default_ns(e) == e.ns

----------------------------------------------------------------------------
(* create_client_builder, statement by statement.  A step yields           *)
(* [err, val]: err is Some(error) when `?` returns early.                  *)

Step(e, v) == [err |-> e, val |-> v]

\* variant: the plugin is skipped when a token file is configured
NeedsExec_UnlessTokenFile(user) ==
    user.token = None /\ user.token_file = None /\ IsSome(user.exec)

\* the exec plugin runs for a user without an inline token that configures one
NeedsExec(user) == user.token = None /\ IsSome(user.exec)

\* variant: a response without status counts as "no token"
ExecOutcome_NoStatusIsNoToken(r) ==
    IF ~r.ok THEN Step(Some(ExecError), None)
    ELSE IF r.status = None THEN Step(None, None)
    ELSE Step(None, Unwrap(r.status).token)

\* the None arm of the match: auth_exec(exec)?, status.ok_or_else(..)?, status.token
ExecOutcome(r) ==
    IF ~r.ok THEN Step(Some(ExecError), None)
    ELSE IF r.status = None
    THEN Step(Some(KubeConfigErr(<<"exec-plugin response did not contain a status">>)), None)
    ELSE Step(None, Unwrap(r.status).token)

\* let token = match &loader.user.token { .. }
TokenMatch(user, r) ==
    IF IsSome(user.token) THEN Step(None, user.token)
    ELSE IF NeedsExec(user) THEN ExecOutcome(r)
    ELSE Step(None, None)

\* if let Some(bundle) = loader.ca_bundle() { for ca in bundle? { .. } }
\* derOk: whether Certificate::from_der(ca.to_der()) accepts every certificate
RootCerts(b, l, derOk) ==
    LET bundle == ca_bundle(l) IN
    IF ~bundle.present THEN Step(None, b)
    ELSE IF ~bundle.ok THEN Step(Some(TlsMaterialError), b)
    ELSE IF ~derOk THEN Step(Some(SslError), b)
    ELSE Step(None, [b EXCEPT !.roots = @ + bundle.n])

\* variant: the insecure flag is applied whenever the cluster asks for it
IdentityMatch_InsecureAlways(b, l, derOk) ==
    LET c == IF l.cluster.insecure_skip_tls_verify = Some(TRUE)
             THEN [b EXCEPT !.accept_invalid_certs = TRUE] ELSE b
    IN  IF p12(l)
        THEN IF derOk
             THEN Step(None, [c EXCEPT !.identity = Some("pkcs12(user certificate, user key)")])
             ELSE Step(Some(SslError), b)
        ELSE Step(None, c)

\* match loader.p12(" ") { Ok(p12) => identity, Err(_) => insecure fallback }
\* derOk: whether Identity::from_pkcs12_der(p12.to_der()) accepts the bundle
IdentityMatch(b, l, derOk) ==
    IF p12(l)
    THEN IF derOk
         THEN Step(None, [b EXCEPT !.identity = Some("pkcs12(user certificate, user key)")])
         ELSE Step(Some(SslError), b)
    ELSE IF l.cluster.insecure_skip_tls_verify = Some(TRUE)
         THEN Step(None, [b EXCEPT !.accept_invalid_certs = TRUE])
         ELSE Step(None, b)

\* variant: the token file is consulted before the exec plugin's token
TokenOrFile_FileBeforeExec(tok, l, content) ==
    IF IsSome(l.user.token) THEN l.user.token
    ELSE IF IsSome(data_or_file(None, l.user.token_file, content))
    THEN data_or_file(None, l.user.token_file, content)
    ELSE tok

\* utils::data_or_file(&token, &loader.user.token_file)
TokenOrFile(tok, l, content) == data_or_file(tok, l.user.token_file, content)

\* variant: username and password are looked at before the token
AuthHeaders_BasicFirst(tokres, l) ==
    IF IsSome(l.user.username) /\ IsSome(l.user.password)
    THEN Step(None, HeaderInsert({}, AUTHORIZATION,
                        BasicValue(Unwrap(l.user.username), Unwrap(l.user.password))))
    ELSE IF IsSome(tokres)
    THEN IF HeaderValueValid(BearerValue(Unwrap(tokres)))
         THEN Step(None, HeaderInsert({}, AUTHORIZATION, BearerValue(Unwrap(tokres))))
         ELSE Step(Some(KubeConfigErr(<<"Invalid bearer token">>)), {})
    ELSE Step(None, {})

\* variant: a token file that is configured but yields nothing is an error
AuthHeaders_FileErrorFails(tokres, l) ==
    IF IsSome(tokres)
    THEN IF HeaderValueValid(BearerValue(Unwrap(tokres)))
         THEN Step(None, HeaderInsert({}, AUTHORIZATION, BearerValue(Unwrap(tokres))))
         ELSE Step(Some(KubeConfigErr(<<"Invalid bearer token">>)), {})
    ELSE IF IsSome(l.user.token_file)
    THEN Step(Some(KubeConfigErr(<<"Unable to read token file">>)), {})
    ELSE IF IsSome(l.user.username) /\ IsSome(l.user.password)
    THEN Step(None, HeaderInsert({}, AUTHORIZATION,
                        BasicValue(Unwrap(l.user.username), Unwrap(l.user.password))))
    ELSE Step(None, {})

\* match (data_or_file(..), (username, password)) { .. }: the header map
AuthHeaders(tokres, l) ==
    IF IsSome(tokres)
    THEN IF HeaderValueValid(BearerValue(Unwrap(tokres)))
         THEN Step(None, HeaderInsert({}, AUTHORIZATION, BearerValue(Unwrap(tokres))))
         ELSE Step(Some(KubeConfigErr(<<"Invalid bearer token">>)), {})
    ELSE IF IsSome(l.user.username) /\ IsSome(l.user.password)
    THEN LET v == BasicValue(Unwrap(l.user.username), Unwrap(l.user.password)) IN
         IF HeaderValueValid(v)
         THEN Step(None, HeaderInsert({}, AUTHORIZATION, v))
         ELSE Step(Some(KubeConfigErr(<<"Invalid bearer token">>)), {})
    ELSE Step(None, {})

----------------------------------------------------------------------------
(* incluster_config, statement by statement *)

InClusterServer(e) ==
    IF kube_server(e) = None THEN Step(Some(KubeConfigErr(InClusterServerMsg)), None)
    ELSE Step(None, kube_server(e))

InClusterCa(e) ==
    IF ~load_cert(e) \/ ~cert_from_der(e) THEN Step(Some(SslError), None)
    ELSE Step(None, None)

InClusterToken(e) ==
    IF load_token(e) = None
    THEN Step(Some(KubeConfigErr(<<"Unable to load in cluster token">>)), None)
    ELSE Step(None, load_token(e))

\* variant: the namespace file's failure is reported as the token's
InClusterNs_TokenMessage(e) ==
    IF load_default_ns(e) = None
    THEN Step(Some(KubeConfigErr(<<"Unable to load in cluster token">>)), None)
    ELSE Step(None, load_default_ns(e))

InClusterNs(e) ==
    IF load_default_ns(e) = None
    THEN Step(Some(KubeConfigErr(<<"Unable to load incluster default namespace">>)), None)
    ELSE Step(None, load_default_ns(e))

\* headers, client builder, client and Configuration of incluster_config
InClusterBuild(e, tok) ==
    LET v == BearerValue(Unwrap(tok))
        b == [NewBuilder EXCEPT !.roots = @ + 1,
                                !.default_headers = HeaderInsert({}, AUTHORIZATION, v)]
    IN  IF ~HeaderValueValid(v) THEN Err(KubeConfigErr(<<"Invalid bearer token">>))
        ELSE IF ~e.build_ok THEN Err(KubeConfigErr(<<"Unable to build client">>))
        ELSE OkConfiguration(with_default_ns(Unwrap(kube_server(e)), b,
                                             Unwrap(load_default_ns(e))))

----------------------------------------------------------------------------
(* State machine *)

Init ==
    /\ pc = "idle"
    /\ entry = "none"
    /\ loader = None
    /\ fs = None
    /\ creds = None
    /\ execCalls = 0
    /\ token = None
    /\ client_builder = NewBuilder
    /\ icenv = None
    /\ result = Pending

Fail(e) ==
    /\ pc' = "done"
    /\ result' = Err(e)

\* a caller calls create_client_builder
CallCreateClientBuilder ==
    /\ pc = "idle"
    /\ entry' = "create_client_builder"
    /\ pc' = "find"
    /\ UNCHANGED <<loader, fs, creds, execCalls, token, client_builder, icenv, result>>

\* a caller calls load_kube_config_with (or load_kube_config), which calls
\* create_client_builder first
CallLoadKubeConfigWith ==
    /\ pc = "idle"
    /\ entry' = "load_kube_config_with"
    /\ pc' = "find"
    /\ UNCHANGED <<loader, fs, creds, execCalls, token, client_builder, icenv, result>>

\* a caller calls incluster_config in some environment
CallInClusterConfig ==
    /\ pc = "idle"
    /\ entry' = "incluster_config"
    /\ pc' = "ic_server"
    /\ \E e \in InClusterEnvs : icenv' = Some(e)
    /\ UNCHANGED <<loader, fs, creds, execCalls, token, client_builder, result>>

\* utils::find_kubeconfig().context(..)?
FindKubeconfig ==
    /\ pc = "find"
    /\ \E found \in BOOLEAN :
         IF found THEN pc' = "load" /\ UNCHANGED result
         ELSE Fail(KubeConfigErr(<<"Unable to load file">>))
    /\ UNCHANGED <<entry, loader, fs, creds, execCalls, token, client_builder, icenv>>

\* KubeConfigLoader::load(..)?: the selection the file and the options give, and
\* with it the token file that the selected user names
Load ==
    /\ pc = "load"
    /\ \/ /\ Fail(LoaderError)
          /\ UNCHANGED <<loader, fs>>
       \/ /\ \E l \in Loaders : \E content \in OptTokens :
                /\ (l.user.token_file = None => content = None)
                /\ loader' = Some(l)
                /\ fs' = content
          /\ pc' = "token"
          /\ UNCHANGED result
    /\ UNCHANGED <<entry, creds, execCalls, token, client_builder, icenv>>

ResolveToken ==
    /\ pc = "token"
    /\ \E r \in IF NeedsExec(L.user) THEN ExecResults ELSE {[ok |-> FALSE, status |-> None]} :
         /\ IF NeedsExec(L.user)
            THEN creds' = Some(r) /\ execCalls' = execCalls + 1
            ELSE UNCHANGED <<creds, execCalls>>
         /\ LET s == TokenMatch(L.user, r) IN
            IF IsSome(s.err)
            THEN Fail(Unwrap(s.err)) /\ UNCHANGED token
            ELSE token' = s.val /\ pc' = "ca" /\ UNCHANGED result
    /\ UNCHANGED <<entry, loader, fs, client_builder, icenv>>

AddRootCerts ==
    /\ pc = "ca"
    /\ \E derOk \in BOOLEAN :
         LET s == RootCerts(NewBuilder, L, derOk) IN
         IF IsSome(s.err)
         THEN Fail(Unwrap(s.err)) /\ UNCHANGED client_builder
         ELSE client_builder' = s.val /\ pc' = "identity" /\ UNCHANGED result
    /\ UNCHANGED <<entry, loader, fs, creds, execCalls, token, icenv>>

ResolveIdentity ==
    /\ pc = "identity"
    /\ \E derOk \in BOOLEAN :
         LET s == IdentityMatch(client_builder, L, derOk) IN
         IF IsSome(s.err)
         THEN Fail(Unwrap(s.err)) /\ client_builder' = NewBuilder
         ELSE client_builder' = s.val /\ pc' = "headers" /\ UNCHANGED result
    /\ UNCHANGED <<entry, loader, fs, creds, execCalls, token, icenv>>

\* the header match and client_builder.default_headers(headers)
SetAuthHeader ==
    /\ pc = "headers"
    /\ LET s == AuthHeaders(TokenOrFile(token, L, fs), L) IN
       IF IsSome(s.err)
       THEN Fail(Unwrap(s.err)) /\ client_builder' = NewBuilder
       ELSE /\ client_builder' = [client_builder EXCEPT !.default_headers = s.val]
            /\ pc' = "built"
            /\ UNCHANGED result
    /\ UNCHANGED <<entry, loader, fs, creds, execCalls, token, icenv>>

\* Ok((client_builder.default_headers(headers), loader)) to the caller
ReturnBuilder ==
    /\ pc = "built"
    /\ entry = "create_client_builder"
    /\ pc' = "done"
    /\ result' = OkBuilder(client_builder)
    /\ UNCHANGED <<entry, loader, fs, creds, execCalls, token, client_builder, icenv>>

\* load_kube_config_with: Configuration::new(result.1.cluster.server, result.0.build()?)
BuildClient ==
    /\ pc = "built"
    /\ entry = "load_kube_config_with"
    /\ \E ok \in BOOLEAN :
         IF ok
         THEN /\ pc' = "done"
              /\ result' = OkConfiguration(Configuration_new(L.cluster.server, client_builder))
         ELSE Fail(KubeConfigErr(<<"Unable to build client">>))
    /\ UNCHANGED <<entry, loader, fs, creds, execCalls, token, client_builder, icenv>>

IcStep(from, to, s) ==
    /\ pc = from
    /\ IF IsSome(s.err) THEN Fail(Unwrap(s.err)) ELSE pc' = to /\ UNCHANGED result

IcServer ==
    /\ IcStep("ic_server", "ic_ca", InClusterServer(E))
    /\ UNCHANGED <<entry, loader, fs, creds, execCalls, token, client_builder, icenv>>

IcCa ==
    /\ IcStep("ic_ca", "ic_token", InClusterCa(E))
    /\ UNCHANGED <<entry, loader, fs, creds, execCalls, token, client_builder, icenv>>

IcToken ==
    /\ IcStep("ic_token", "ic_ns", InClusterToken(E))
    /\ token' = InClusterToken(E).val
    /\ UNCHANGED <<entry, loader, fs, creds, execCalls, client_builder, icenv>>

IcNs ==
    /\ IcStep("ic_ns", "ic_build", InClusterNs(E))
    /\ UNCHANGED <<entry, loader, fs, creds, execCalls, token, client_builder, icenv>>

IcBuild ==
    /\ pc = "ic_build"
    /\ pc' = "done"
    /\ result' = InClusterBuild(E, token)
    /\ UNCHANGED <<entry, loader, fs, creds, execCalls, token, client_builder, icenv>>

Next ==
    \/ CallCreateClientBuilder
    \/ CallLoadKubeConfigWith
    \/ CallInClusterConfig
    \/ FindKubeconfig
    \/ Load
    \/ ResolveToken
    \/ AddRootCerts
    \/ ResolveIdentity
    \/ SetAuthHeader
    \/ ReturnBuilder
    \/ BuildClient
    \/ IcServer
    \/ IcCa
    \/ IcToken
    \/ IcNs
    \/ IcBuild

Spec == Init /\ [][Next]_vars

----------------------------------------------------------------------------
(* Properties *)

KubePath == entry \in {"create_client_builder", "load_kube_config_with"}
\* the kubeconfig path returned Ok
KubeOk == pc = "done" /\ KubePath /\ result.status = "Ok"
\* the in-cluster path returned Ok
InClusterOk == pc = "done" /\ entry = "incluster_config" /\ result.status = "Ok"
\* the client builder behind an Ok result
FinalBuilder ==
    IF IsSome(result.builder) THEN Unwrap(result.builder)
    ELSE Unwrap(result.configuration).client
\* the Authorization header values of a header map
AuthValues(h) == {e[2] : e \in {x \in h : x[1] = AUTHORIZATION}}
\* the token of the exec plugin's status, when the plugin answered with one
ExecToken ==
    IF IsSome(creds) /\ Unwrap(creds).ok /\ IsSome(Unwrap(creds).status)
    THEN Unwrap(Unwrap(creds).status).token
    ELSE None
\* the client certificate and key of the exec plugin's status
ExecHasCert ==
    /\ IsSome(creds) /\ Unwrap(creds).ok /\ IsSome(Unwrap(creds).status)
    /\ IsSome(Unwrap(Unwrap(creds).status).client_certificate_data)
    /\ IsSome(Unwrap(Unwrap(creds).status).client_key_data)
BothBasic == IsSome(L.user.username) /\ IsSome(L.user.password)
BasicOfUser == BasicValue(Unwrap(L.user.username), Unwrap(L.user.password))
\* the token file is configured and readable
FileReadable == IsSome(L.user.token_file) /\ IsSome(fs)

C2_InsecureOnlyWithoutIdentity ==
    KubeOk =>
        /\ FinalBuilder.accept_invalid_certs
             <=> (~p12(L) /\ L.cluster.insecure_skip_tls_verify = Some(TRUE))
        /\ ~(IsSome(FinalBuilder.identity) /\ FinalBuilder.accept_invalid_certs)
        /\ (p12(L) => IsSome(FinalBuilder.identity))

\* an identity, insecure_skip_tls_verify = true and no CA: the flag stays off
C2_Witness ==
    /\ KubeOk
    /\ p12(L) /\ L.cluster.insecure_skip_tls_verify = Some(TRUE)
    /\ L.cluster.certificate_authority.st = "absent"
    /\ IsSome(FinalBuilder.identity) /\ ~FinalBuilder.accept_invalid_certs

\* C3 as stated: a CA bundle, client certificate or client key that is present but
\* malformed makes the build fail.
C3_MalformedIsError ==
    (pc = "done" /\ KubePath /\ IsSome(loader)
       /\ \/ L.cluster.certificate_authority.st = "malformed"
          \/ L.user.client_certificate = "malformed"
          \/ L.user.client_key = "malformed")
    => result.status = "Err"

\* C4: an exec plugin response without status ends the build with the error
\* 'exec-plugin response did not contain a status': no builder, no fallback.
C4_NoStatusIsError ==
    (IsSome(creds) /\ Unwrap(creds).ok /\ Unwrap(creds).status = None)
    => /\ pc = "done"
       /\ result = Err(KubeConfigErr(<<"exec-plugin response did not contain a status">>))
       /\ result.builder = None /\ result.configuration = None

\* a status-less response for a user who also has a readable token file and
\* username/password
C4_Witness ==
    /\ pc = "done" /\ KubePath
    /\ IsSome(creds) /\ Unwrap(creds).ok /\ Unwrap(creds).status = None
    /\ FileReadable /\ BothBasic
    /\ result.status = "Err"

\* C5 as stated: when the exec plugin's status carries a client certificate and key,
\* the built client's identity is made of them.
C5_ExecCertIsIdentity ==
    (KubeOk /\ ExecHasCert)
    => FinalBuilder.identity = Some("pkcs12(exec certificate, exec key)")

\* C6: in a successful build there is at most one Authorization header: Bearer when
\* a token resolves, Basic exactly when none resolves and username and password are
\* both present, none otherwise; and the header step fails only on a resolved token.
C6_AuthHeaderCases ==
    LET tr == data_or_file(token, L.user.token_file, fs)
        auth == AuthValues(FinalBuilder.default_headers)
    IN  /\ KubeOk =>
            /\ Cardinality(auth) <= 1
            /\ Cardinality(FinalBuilder.default_headers) <= 1
            /\ (IsSome(tr) => auth = {BearerValue(Unwrap(tr))})
            /\ (tr = None /\ BothBasic => auth = {BasicOfUser})
            /\ (\E v \in auth : v[1] = "Basic ") <=> (tr = None /\ BothBasic)
            /\ (tr = None /\ ~BothBasic => auth = {})
        /\ (pc = "done" /\ KubePath
              /\ result.error = Some(KubeConfigErr(<<"Invalid bearer token">>)))
           => IsSome(tr)

\* a token resolves for a user who also has username and password
C6_Witness ==
    /\ KubeOk
    /\ BothBasic
    /\ IsSome(data_or_file(token, L.user.token_file, fs))
    /\ AuthValues(FinalBuilder.default_headers)
         = {BearerValue(Unwrap(data_or_file(token, L.user.token_file, fs)))}

\* C7: the exec plugin is invoked at most once per build: once the token step is
\* over, exactly once for a user with no inline token and exec configured, else not
\* at all; a failed invocation ends the build with an error.
C7_ExecOncePerBuild ==
    /\ execCalls <= 1
    /\ (KubePath /\ IsSome(loader) /\ pc # "token")
         => execCalls = (IF L.user.token = None /\ IsSome(L.user.exec) THEN 1 ELSE 0)
    /\ (IsSome(creds) /\ (~Unwrap(creds).ok \/ Unwrap(creds).status = None))
         => (pc = "done" /\ result.status = "Err")

\* the plugin fails for a user whose token file or username/password would do
C7_Witness ==
    /\ pc = "done" /\ KubePath
    /\ IsSome(creds) /\ ~Unwrap(creds).ok
    /\ FileReadable /\ BothBasic
    /\ execCalls = 1 /\ result.status = "Err"

TokenFileError == KubeConfigErr(<<"Unable to load in cluster token">>)
NamespaceFileError == KubeConfigErr(<<"Unable to load incluster default namespace">>)
ServerEnvError == KubeConfigErr(InClusterServerMsg)

\* C8: incluster_config fails at the first unavailable of server env vars, CA file,
\* token file, namespace file, each with its own error (the server's names both env
\* vars); it returns Ok only when all four are available, and then with one root
\* certificate and the header Bearer <token>.
C8_InClusterOrder ==
    (pc = "done" /\ entry = "incluster_config") =>
        LET serverOk == IsSome(E.host) /\ IsSome(E.port)
            caOk == E.ca = "valid"
        IN  /\ ~serverOk => result = Err(ServerEnvError)
            /\ (serverOk /\ ~caOk) => result = Err(SslError)
            /\ (serverOk /\ caOk /\ E.token = None) => result = Err(TokenFileError)
            /\ (serverOk /\ caOk /\ IsSome(E.token) /\ E.ns = None)
                 => result = Err(NamespaceFileError)
            /\ result.status = "Ok"
                 => /\ serverOk /\ caOk /\ IsSome(E.token) /\ IsSome(E.ns)
                    /\ FinalBuilder.roots = 1
                    /\ FinalBuilder.default_headers
                         = {<<AUTHORIZATION, BearerValue(Unwrap(E.token))>>}
            /\ Cardinality({ServerEnvError, SslError, TokenFileError, NamespaceFileError}) = 4
            /\ \E i, j \in 1..Len(ServerEnvError.msg) :
                 ServerEnvError.msg[i] = SERVICE_HOSTENV /\ ServerEnvError.msg[j] = SERVICE_PORTENV

\* only the namespace file is missing: its own error is returned
C8_Witness ==
    /\ pc = "done" /\ entry = "incluster_config"
    /\ IsSome(E.host) /\ IsSome(E.port) /\ E.ca = "valid" /\ IsSome(E.token)
    /\ E.ns = None
    /\ result = Err(NamespaceFileError)

\* C9: a Configuration of the kubeconfig path has the selected cluster's server as
\* base_path and "default" as default_ns whatever the context's namespace; one of
\* incluster_config has the namespace file's content as default_ns.
C9_DefaultNamespace ==
    /\ (KubeOk /\ entry = "load_kube_config_with")
         => /\ Unwrap(result.configuration).base_path = L.cluster.server
            /\ Unwrap(result.configuration).default_ns = "default"
    /\ InClusterOk => Unwrap(result.configuration).default_ns = Unwrap(E.ns)

\* a Configuration built from a context that names a namespace
C9_Witness ==
    /\ KubeOk /\ entry = "load_kube_config_with"
    /\ L.context.namespace = Some("ns1")
    /\ Unwrap(result.configuration).default_ns = "default"

\* C10: at the header step, with no token from the inline field or the exec plugin
\* and a configured token_file that cannot be read, the step succeeds: a Basic
\* header if username and password are both present, else no Authorization header.
C10_UnreadableTokenFileIgnored ==
    [][(pc = "headers" /\ token = None /\ IsSome(L.user.token_file) /\ fs = None)
         => /\ pc' = "built"
            /\ result' = Pending
            /\ AuthValues(client_builder'.default_headers)
                 = (IF BothBasic THEN {BasicOfUser} ELSE {})]_vars

\* the header step was taken with an unreadable token file and fell to Basic
C10_Witness ==
    /\ pc = "built"
    /\ token = None /\ IsSome(L.user.token_file) /\ fs = None
    /\ BothBasic
    /\ AuthValues(client_builder.default_headers) = {BasicOfUser}

====
